---- MODULE Spec2Model ----
(***************************************************************************)
(* Model of src/src/train/trainer.py: class Trainer.                       *)
(*                                                                         *)
(* Spec    : the Trainer object after __init__, and its train() method     *)
(*           taken step by step (epoch loop, batch loop of _train_epoch,   *)
(*           validation, early-stop check, checkpointing, final load and   *)
(*           evaluation).  train() may be called again on the same object. *)
(* SpecCW  : the pure function Trainer._calculate_class_weights, applied   *)
(*           to bounded label-count vectors, in exact rational arithmetic  *)
(*           extended with the IEEE values inf and nan that numpy yields   *)
(*           on a division by zero.                                        *)
(*                                                                         *)
(* Floats.  Validation losses are Python floats.  A finite loss is a       *)
(* number in 1..MaxLoss; Inf is float('inf') and NaN is a not-a-number     *)
(* loss (a diverged model).  FloatLt is Python's < on these values: every  *)
(* comparison with NaN is False.                                           *)
(*                                                                         *)
(* Model weights.  The weights of self.model are named by a tag: 0 for the *)
(* weights at construction, k >= 1 for the weights after the k-th training *)
(* epoch run on this Trainer (counted over all calls of train()).          *)
(* best_model.pt holds a tag, or NoFile when this Trainer has not written  *)
(* it.                                                                     *)
(*                                                                         *)
(* Left out: exceptions raised inside a training or validation step (an    *)
(* empty loader divides by zero in _train_epoch and _validate, so          *)
(* len(train_loader) >= 1 here), the augmentation and the loss arithmetic  *)
(* of a batch, logging and plotting.  The statistics appended to the       *)
(* history lists other than the validation loss are named by the tag of    *)
(* the weights that produced them.                                         *)
(***************************************************************************)
EXTENDS Integers, Sequences, FiniteSets, TLC

\* ---- bounds of the model ----
MaxEpochs   == 4   \* config.NUM_EPOCHS ranges over 0..MaxEpochs
MaxPatience == 2   \* config.EARLY_STOP_PATIENCE ranges over 0..MaxPatience
MaxBatches  == 2   \* len(train_loader) ranges over 1..MaxBatches
MaxLoss     == 2   \* finite validation losses range over 1..MaxLoss
MaxHist     == 4   \* train() is called again only while all its epochs fit in MaxHist

\* ---- Python floats ----
Inf == MaxLoss + 1
NaN == MaxLoss + 2
LossValues == (1..MaxLoss) \cup {Inf, NaN}

FloatLt(a, b) == a # NaN /\ b # NaN /\ a < b

\* ---- checkpoint tags ----
NoFile  == 0 - 1   \* best_model.pt was never written by this Trainer
Foreign == 0 - 2   \* weights read from a best_model.pt this Trainer did not write

VARIABLES
    NUM_EPOCHS,           \* config.NUM_EPOCHS
    EARLY_STOP_PATIENCE,  \* config.EARLY_STOP_PATIENCE
    len_train_loader,     \* len(self.train_loader)
    total_steps,          \* the horizon the scheduler was built with
    best_val_loss,        \* self.best_val_loss
    patience_counter,     \* self.patience_counter
    train_losses,         \* self.train_losses
    val_losses,           \* self.val_losses
    train_accuracies,     \* self.train_accuracies
    val_accuracies,       \* self.val_accuracies
    model,                \* tag of the weights now in self.model
    best_file,            \* tag stored in best_model.pt, or NoFile
    opt_steps,            \* calls of self.optimizer.step() so far
    sched_steps,          \* calls of self.scheduler.step() so far
    pc,                   \* position of the control flow inside train()
    epoch,                \* loop variable of train()
    batch,                \* batches of the current _train_epoch already done
    val_loss,             \* local val_loss of the current epoch
    first_call,           \* TRUE while the first train() call of a fresh Trainer runs
    start_len,            \* len(self.val_losses) when the current call began
    start_steps,          \* scheduler steps taken before the current call began
    n_validated,          \* calls of self._validate() so far
    saved_epochs,         \* k such that model_epoch_k.pt was saved by the current call
    curves_saved,         \* history length plotted by the last _save_training_curves of the call
    post,                 \* what the current call did after its epoch loop, in order
    test_results,         \* tag of the weights the test set was evaluated with
    noise_test_results,   \* tag of the weights the noisy test set was evaluated with
    USE_CLASS_WEIGHTS,    \* config.USE_CLASS_WEIGHTS
    CLASS_WEIGHT_METHOD,  \* config.CLASS_WEIGHT_METHOD
    EFFECTIVE_NUM_BETA,   \* config.EFFECTIVE_NUM_BETA, a fraction <<numerator, denominator>>
    label_counts,         \* np.bincount of the training labels, one count per class
    class_weights,        \* self.class_weights: None, or one extended rational per class
    cw_pc                 \* "call" before _calculate_class_weights has run, "done" after

cw_vars     == <<USE_CLASS_WEIGHTS, CLASS_WEIGHT_METHOD, EFFECTIVE_NUM_BETA, label_counts,
                 class_weights, cw_pc>>
\* what __init__ fixes and train() never assigns
init_vars   == <<NUM_EPOCHS, EARLY_STOP_PATIENCE, len_train_loader, total_steps, cw_vars>>
stat_vars   == <<train_losses, val_losses, train_accuracies, val_accuracies>>
stop_vars   == <<best_val_loss, patience_counter>>
step_vars   == <<opt_steps, sched_steps>>
call_vars   == <<first_call, start_len, start_steps>>
ckpt_vars   == <<saved_epochs, curves_saved>>
eval_vars   == <<post, test_results, noise_test_results>>

vars == <<init_vars, stat_vars, stop_vars, step_vars, call_vars, ckpt_vars,
          eval_vars, model, best_file, pc, epoch, batch, val_loss, n_validated>>

\* ---- helpers translated from the source ----

\* total_steps = len(train_loader) * config.NUM_EPOCHS
TotalStepsSum(nb, ne) == nb + ne
TotalSteps(nb, ne) == nb * ne

\* if val_loss < self.best_val_loss:
ImprovesOrEqual(v, best) == FloatLt(v, best) \/ v = best
Improves(v, best) == FloatLt(v, best)

\* if self.patience_counter >= self.config.EARLY_STOP_PATIENCE:
PatienceExceeded(c, p) == c > p
PatienceExhausted(c, p) == c >= p

\* self.<list>.append(x)
RecordDropped(s, x) == s
Record(s, x) == Append(s, x)


\* ---- _calculate_class_weights ----

\* the three sentiment classes the class-distribution log line names
NUM_CLASSES == 3
MaxRoot == 2   \* a class has r*r training samples, r in 0..MaxRoot

\* numpy float64 values: a non-negative fraction n/d in lowest terms, inf, or nan
Fin(n, d) == [k |-> "fin", n |-> n, d |-> d]
FInf == [k |-> "inf", n |-> 0, d |-> 1]
FNaN == [k |-> "nan", n |-> 0, d |-> 1]
None == [k |-> "none", n |-> 0, d |-> 1]

RECURSIVE Gcd(_, _)
Gcd(a, b) == IF b = 0 THEN a ELSE Gcd(b, a % b)

Frac(n, d) == LET g == Gcd(n, d) IN Fin(n \div g, d \div g)

\* x / y on non-negative floats, y finite or inf; a zero divisor gives inf
\* for a positive dividend and nan for a zero one, as numpy does
FDiv(x, y) ==
    IF x.k = "nan" \/ y.k = "nan" THEN FNaN
    ELSE IF x.k = "inf" THEN (IF y.k = "inf" THEN FNaN ELSE FInf)
    ELSE IF y.k = "inf" THEN Fin(0, 1)
    ELSE IF y.n = 0 THEN (IF x.n = 0 THEN FNaN ELSE FInf)
    ELSE Frac(x.n * y.d, x.d * y.n)

FAdd(x, y) ==
    IF x.k = "nan" \/ y.k = "nan" THEN FNaN
    ELSE IF x.k = "inf" \/ y.k = "inf" THEN FInf
    ELSE Frac(x.n * y.d + y.n * x.d, x.d * y.d)

\* x * m for an integer m >= 1
FScale(x, m) ==
    IF x.k = "fin" THEN Frac(x.n * m, x.d) ELSE x

\* np.sqrt of a count that is a perfect square
Sqrt(c) == CHOOSE r \in 0..c : r * r = c

RECURSIVE Pow(_, _)
Pow(b, e) == IF e = 0 THEN 1 ELSE b * Pow(b, e - 1)

\* weights.sum()
RECURSIVE SumUpTo(_, _)
SumUpTo(w, n) == IF n = 0 THEN Fin(0, 1) ELSE FAdd(SumUpTo(w, n - 1), w[n])
WeightSum(w) == SumUpTo(w, NUM_CLASSES)

\* weights = 1.0 / label_counts
InverseWeights(counts) ==
    [c \in 1..NUM_CLASSES |-> FDiv(Fin(1, 1), Fin(counts[c], 1))]

\* weights = 1.0 / np.sqrt(label_counts)
InverseSqrtWeights(counts) ==
    [c \in 1..NUM_CLASSES |-> FDiv(Fin(1, 1), Fin(Sqrt(counts[c]), 1))]

\* weights = (1 - beta) / (1 - beta ** label_counts)
EffectiveSamplesWeights(beta, counts) ==
    [c \in 1..NUM_CLASSES |->
        LET pn == Pow(beta[1], counts[c])
            pd == Pow(beta[2], counts[c])
        IN  FDiv(Frac(beta[2] - beta[1], beta[2]), Frac(pd - pn, pd))]

\* weights = weights / weights.sum() * NUM_CLASSES
Normalize(w) ==
    LET total == WeightSum(w)
    IN  [c \in 1..NUM_CLASSES |-> FScale(FDiv(w[c], total), NUM_CLASSES)]

CalculateClassWeights(use, method, beta, counts) ==
    IF ~use THEN None
    ELSE LET weights ==
                 IF method = "inverse" THEN InverseWeights(counts)
                 ELSE IF method = "inverse_sqrt" THEN InverseSqrtWeights(counts)
                 ELSE IF method = "effective_samples"
                      THEN EffectiveSamplesWeights(beta, counts)
                 ELSE InverseWeights(counts)
         IN  Normalize(weights)

\* ---- the Trainer after __init__ ----

\* the fields of a Trainer built with the given NUM_EPOCHS, EARLY_STOP_PATIENCE
\* and len(train_loader)
TrainerFields(ne, p, nb) ==
    /\ NUM_EPOCHS = ne
    /\ EARLY_STOP_PATIENCE = p
    /\ len_train_loader = nb
    /\ total_steps = TotalSteps(nb, ne)
    /\ best_val_loss = Inf
    /\ patience_counter = 0
    /\ train_losses = <<>>
    /\ val_losses = <<>>
    /\ train_accuracies = <<>>
    /\ val_accuracies = <<>>
    /\ model = 0
    /\ best_file = NoFile
    /\ opt_steps = 0
    /\ sched_steps = 0
    /\ pc = "idle"
    /\ epoch = 0
    /\ batch = 0
    /\ val_loss = Inf
    /\ first_call = FALSE
    /\ start_len = 0
    /\ start_steps = 0
    /\ n_validated = 0
    /\ saved_epochs = {}
    /\ curves_saved = 0
    /\ post = <<>>
    /\ test_results = NoFile
    /\ noise_test_results = NoFile

\* a Trainer configured without class weights: _calculate_class_weights
\* returned None during __init__
Init ==
    /\ \E ne \in 0..MaxEpochs, p \in 0..MaxPatience, nb \in 1..MaxBatches :
         TrainerFields(ne, p, nb)
    /\ USE_CLASS_WEIGHTS = FALSE
    /\ CLASS_WEIGHT_METHOD = "inverse"
    /\ EFFECTIVE_NUM_BETA = <<1, 2>>
    /\ label_counts = [c \in 1..NUM_CLASSES |-> 1]
    /\ class_weights = CalculateClassWeights(USE_CLASS_WEIGHTS, CLASS_WEIGHT_METHOD,
                                             EFFECTIVE_NUM_BETA, label_counts)
    /\ cw_pc = "done"

\* ---- train() ----

\* a caller enters train(); the Trainer's fields keep what earlier calls left
TrainCall ==
    /\ pc \in {"idle", "returned"}
    /\ Len(val_losses) + NUM_EPOCHS <= MaxHist
    /\ first_call' = (pc = "idle")
    /\ start_len' = Len(val_losses)
    /\ start_steps' = sched_steps
    /\ epoch' = 0
    /\ batch' = 0
    /\ saved_epochs' = {}
    /\ curves_saved' = 0
    /\ post' = <<>>
    /\ test_results' = NoFile
    /\ noise_test_results' = NoFile
    /\ pc' = "for"
    /\ UNCHANGED <<init_vars, stat_vars, stop_vars, step_vars, model, best_file,
                   val_loss, n_validated>>

\* for epoch in range(NUM_EPOCHS): one more epoch; _train_epoch begins
EpochBegin ==
    /\ pc = "for"
    /\ epoch < NUM_EPOCHS
    /\ batch' = 0
    /\ pc' = "train_epoch"
    /\ UNCHANGED <<init_vars, stat_vars, stop_vars, step_vars, call_vars, ckpt_vars,
                   eval_vars, model, best_file, epoch, val_loss, n_validated>>

\* for epoch in range(NUM_EPOCHS): the range is exhausted
LoopExhausted ==
    /\ pc = "for"
    /\ epoch >= NUM_EPOCHS
    /\ pc' = "load"
    /\ UNCHANGED <<init_vars, stat_vars, stop_vars, step_vars, call_vars, ckpt_vars,
                   eval_vars, model, best_file, epoch, batch, val_loss, n_validated>>

\* _train_epoch, one batch up to and including self.optimizer.step()
OptimizerStep ==
    /\ pc = "train_epoch"
    /\ batch < len_train_loader
    /\ opt_steps' = opt_steps + 1
    /\ model' = Len(val_losses) + 1
    /\ pc' = "sched"
    /\ UNCHANGED <<init_vars, stat_vars, stop_vars, sched_steps, call_vars, ckpt_vars,
                   eval_vars, best_file, epoch, batch, val_loss, n_validated>>

\* _train_epoch, the rest of the batch: self.scheduler.step() and the statistics
SchedulerStep ==
    /\ pc = "sched"
    /\ sched_steps' = sched_steps + 1
    /\ batch' = batch + 1
    /\ pc' = "train_epoch"
    /\ UNCHANGED <<init_vars, stat_vars, stop_vars, opt_steps, call_vars, ckpt_vars,
                   eval_vars, model, best_file, epoch, val_loss, n_validated>>

\* _train_epoch returns, _validate() runs, the four statistics are appended
ValidateAndRecord ==
    /\ pc = "train_epoch"
    /\ batch = len_train_loader
    /\ \E v \in LossValues :
         /\ val_loss' = v
         /\ val_losses' = Record(val_losses, v)
    /\ train_losses' = Record(train_losses, model)
    /\ train_accuracies' = Record(train_accuracies, model)
    /\ val_accuracies' = Record(val_accuracies, model)
    /\ n_validated' = n_validated + 1
    /\ pc' = "early_stop"
    /\ UNCHANGED <<init_vars, stop_vars, step_vars, call_vars, ckpt_vars, eval_vars,
                   model, best_file, epoch, batch>>

\* the early-stop check: a new best is saved to best_model.pt
NewBest ==
    /\ pc = "early_stop"
    /\ Improves(val_loss, best_val_loss)
    /\ best_val_loss' = val_loss
    /\ patience_counter' = 0
    /\ best_file' = model
    /\ pc' = "checkpoint"
    /\ UNCHANGED <<init_vars, stat_vars, step_vars, call_vars, ckpt_vars, eval_vars,
                   model, epoch, batch, val_loss, n_validated>>

\* the early-stop check: no improvement, patience left
NoImprovement ==
    /\ pc = "early_stop"
    /\ ~Improves(val_loss, best_val_loss)
    /\ patience_counter' = patience_counter + 1
    /\ ~PatienceExhausted(patience_counter', EARLY_STOP_PATIENCE)
    /\ pc' = "checkpoint"
    /\ UNCHANGED <<init_vars, stat_vars, step_vars, call_vars, ckpt_vars, eval_vars,
                   best_val_loss, model, best_file, epoch, batch, val_loss, n_validated>>

\* the early-stop check: no improvement, patience exhausted, break
EarlyStop ==
    /\ pc = "early_stop"
    /\ ~Improves(val_loss, best_val_loss)
    /\ patience_counter' = patience_counter + 1
    /\ PatienceExhausted(patience_counter', EARLY_STOP_PATIENCE)
    /\ pc' = "load"
    /\ UNCHANGED <<init_vars, stat_vars, step_vars, call_vars, ckpt_vars, eval_vars,
                   best_val_loss, model, best_file, epoch, batch, val_loss, n_validated>>

\* the end of the loop body: model_epoch_{epoch+1}.pt, the curves, the modal weights
SaveCheckpoint ==
    /\ pc = "checkpoint"
    /\ saved_epochs' = saved_epochs \cup {epoch + 1}
    /\ curves_saved' = Len(val_losses)
    /\ epoch' = epoch + 1
    /\ pc' = "for"
    /\ UNCHANGED <<init_vars, stat_vars, stop_vars, step_vars, call_vars, eval_vars,
                   model, best_file, batch, val_loss, n_validated>>

\* load_model(best_model.pt): the file this Trainer wrote
LoadBest ==
    /\ pc = "load"
    /\ best_file # NoFile
    /\ model' = best_file
    /\ post' = Append(post, "load")
    /\ pc' = "eval_test"
    /\ UNCHANGED <<init_vars, stat_vars, stop_vars, step_vars, call_vars, ckpt_vars,
                   test_results, noise_test_results, best_file, epoch, batch, val_loss,
                   n_validated>>

\* load_model(best_model.pt) when this Trainer wrote none: a file left in
\* MODEL_SAVE_PATH by something else is loaded
LoadForeign ==
    /\ pc = "load"
    /\ best_file = NoFile
    /\ model' = Foreign
    /\ post' = Append(post, "load")
    /\ pc' = "eval_test"
    /\ UNCHANGED <<init_vars, stat_vars, stop_vars, step_vars, call_vars, ckpt_vars,
                   test_results, noise_test_results, best_file, epoch, batch, val_loss,
                   n_validated>>

\* load_model(best_model.pt) when this Trainer wrote none and no file is there:
\* the load raises and train() ends without a result
LoadRaises ==
    /\ pc = "load"
    /\ best_file = NoFile
    /\ pc' = "raised"
    /\ UNCHANGED <<init_vars, stat_vars, stop_vars, step_vars, call_vars, ckpt_vars,
                   eval_vars, model, best_file, epoch, batch, val_loss, n_validated>>

\* test_results = self.evaluate(self.test_loader, ...)
EvaluateTest ==
    /\ pc = "eval_test"
    /\ test_results' = model
    /\ post' = Append(post, "test")
    /\ pc' = "eval_noise"
    /\ UNCHANGED <<init_vars, stat_vars, stop_vars, step_vars, call_vars, ckpt_vars,
                   noise_test_results, model, best_file, epoch, batch, val_loss,
                   n_validated>>

\* noise_test_results = self.evaluate(self.noise_test_loader, ...)
EvaluateNoiseTest ==
    /\ pc = "eval_noise"
    /\ noise_test_results' = model
    /\ post' = Append(post, "noise")
    /\ pc' = "return"
    /\ UNCHANGED <<init_vars, stat_vars, stop_vars, step_vars, call_vars, ckpt_vars,
                   test_results, model, best_file, epoch, batch, val_loss, n_validated>>

\* return {...}
Return ==
    /\ pc = "return"
    /\ pc' = "returned"
    /\ UNCHANGED <<init_vars, stat_vars, stop_vars, step_vars, call_vars, ckpt_vars,
                   eval_vars, model, best_file, epoch, batch, val_loss, n_validated>>

Next ==
    \/ TrainCall
    \/ EpochBegin
    \/ LoopExhausted
    \/ OptimizerStep
    \/ SchedulerStep
    \/ ValidateAndRecord
    \/ NewBest
    \/ NoImprovement
    \/ EarlyStop
    \/ SaveCheckpoint
    \/ LoadBest
    \/ LoadForeign
    \/ LoadRaises
    \/ EvaluateTest
    \/ EvaluateNoiseTest
    \/ Return

Spec == Init /\ [][Next]_vars

\* ---- _calculate_class_weights on its own ----

CountValues == {r * r : r \in 0..MaxRoot}
Methods == {"inverse", "inverse_sqrt", "effective_samples", "unrecognised"}

InitCW ==
    /\ TrainerFields(1, 1, 1)
    /\ USE_CLASS_WEIGHTS \in BOOLEAN
    /\ CLASS_WEIGHT_METHOD \in Methods
    /\ EFFECTIVE_NUM_BETA = <<1, 2>>
    /\ label_counts \in [1..NUM_CLASSES -> CountValues]
    /\ class_weights = None
    /\ cw_pc = "call"

\* self.class_weights = self._calculate_class_weights(train_loader)
CalculateClassWeightsCall ==
    /\ cw_pc = "call"
    /\ class_weights' = CalculateClassWeights(USE_CLASS_WEIGHTS, CLASS_WEIGHT_METHOD,
                                              EFFECTIVE_NUM_BETA, label_counts)
    /\ cw_pc' = "done"
    /\ UNCHANGED <<NUM_EPOCHS, EARLY_STOP_PATIENCE, len_train_loader, total_steps,
                   USE_CLASS_WEIGHTS, CLASS_WEIGHT_METHOD, EFFECTIVE_NUM_BETA,
                   label_counts, stat_vars, stop_vars, step_vars, call_vars, ckpt_vars,
                   eval_vars, model, best_file, pc, epoch, batch, val_loss, n_validated>>

NextCW == CalculateClassWeightsCall

SpecCW == InitCW /\ [][NextCW]_vars

\* ---- what the claims speak of, computed from the history alone ----

\* Python's strict "lower than", written for the claims
Decreases(v, b) == v # NaN /\ b # NaN /\ v < b

\* the lowest loss among the first n recorded validation losses (inf when none)
RECURSIVE RunBest(_, _)
RunBest(h, n) ==
    IF n = 0 THEN Inf
    ELSE LET b == RunBest(h, n - 1)
         IN  IF Decreases(h[n], b) THEN h[n] ELSE b

\* consecutive epochs, ending with the n-th, that did not strictly decrease the best
RECURSIVE StaleCount(_, _)
StaleCount(h, n) ==
    IF n = 0 THEN 0
    ELSE IF Decreases(h[n], RunBest(h, n - 1)) THEN 0
         ELSE StaleCount(h, n - 1) + 1

\* epochs of the current call whose validation has run
Ran == Len(val_losses) - start_len

InEpoch  == pc \in {"train_epoch", "sched"}
PostLoop == pc \in {"load", "eval_test", "eval_noise", "return", "returned", "raised"}

\* the early-stopping rule with threshold t: no epoch is started after an epoch
\* of this call at whose end the stale count had reached t, and the loop ends
\* either at the first such epoch or after exactly NUM_EPOCHS epochs
StopsAt(t) ==
    /\ InEpoch =>
         \A j \in 1..epoch : StaleCount(val_losses, start_len + j) < t
    /\ PostLoop =>
         \/ /\ Ran >= 1
            /\ StaleCount(val_losses, start_len + Ran) >= t
            /\ \A j \in 1..(Ran - 1) : StaleCount(val_losses, start_len + j) < t
         \/ /\ Ran = NUM_EPOCHS
            /\ \A j \in 1..Ran : StaleCount(val_losses, start_len + j) < t

\* C1 as stated: the epoch loop stops at the end of the first epoch at which the
\* number of consecutive epochs without a strict decrease of the validation loss
\* below best_val_loss reaches EARLY_STOP_PATIENCE, no epoch runs after it, and
\* otherwise exactly NUM_EPOCHS epochs run.
C1_AsStated == StopsAt(EARLY_STOP_PATIENCE)

\* C1 amended: the same with the threshold max(EARLY_STOP_PATIENCE, 1): the
\* counter is compared only after an increment, so a patience of 0 stops the
\* loop at the first epoch without a strict decrease, like a patience of 1.
C1_EarlyStopping ==
    StopsAt(IF EARLY_STOP_PATIENCE >= 1 THEN EARLY_STOP_PATIENCE ELSE 1)

\* an early stop with patience 2 after an improving epoch, epochs left over
C1_Witness ==
    /\ pc = "returned"
    /\ EARLY_STOP_PATIENCE = 2
    /\ Ran = 3
    /\ Ran < NUM_EPOCHS
    /\ best_val_loss # Inf

\* the Trainer has seen at most its first train() call
Fresh == pc = "idle" \/ first_call

\* epochs whose early-stop check is done (the check of the newest recorded
\* loss is still to come at "early_stop")
Completed == IF pc = "early_stop" THEN Len(val_losses) - 1 ELSE Len(val_losses)

\* patience_counter counts the epochs completed since the last strict improvement
CounterIsStaleCount == patience_counter = StaleCount(val_losses, Completed)

\* C6 as stated: in every reachable state patience_counter is the number of
\* epochs completed since the last epoch that strictly improved best_val_loss,
\* and for EARLY_STOP_PATIENCE >= 1 it lies in 0..EARLY_STOP_PATIENCE.
C6_AsStated ==
    /\ CounterIsStaleCount
    /\ EARLY_STOP_PATIENCE >= 1 =>
         (0 <= patience_counter /\ patience_counter <= EARLY_STOP_PATIENCE)

\* C6 amended: the counter is the stale count in every reachable state; the
\* bound 0..EARLY_STOP_PATIENCE (for EARLY_STOP_PATIENCE >= 1) holds up to the
\* end of the first train() call of a fresh Trainer.  train() never resets the
\* counter, so a later call that starts at the bound steps over it.
C6_PatienceCounter ==
    /\ CounterIsStaleCount
    /\ (EARLY_STOP_PATIENCE >= 1 /\ Fresh) =>
         (0 <= patience_counter /\ patience_counter <= EARLY_STOP_PATIENCE)

\* the first call stopped early at the bound, after an epoch that improved
C6_Witness ==
    /\ pc = "returned"
    /\ first_call
    /\ EARLY_STOP_PATIENCE = 2
    /\ patience_counter = 2
    /\ best_val_loss # Inf
    /\ Ran < NUM_EPOCHS

\* C7: the four history lists have the same length, the number of epochs whose
\* validation has run (the epoch that triggered early stopping included), and
\* up to the end of the first train() call of a fresh Trainer that length is at
\* most NUM_EPOCHS.
C7_History ==
    /\ Len(train_losses) = Len(val_losses)
    /\ Len(train_accuracies) = Len(val_losses)
    /\ Len(val_accuracies) = Len(val_losses)
    /\ Len(val_losses) = n_validated
    /\ Fresh => Len(val_losses) <= NUM_EPOCHS

\* the first call returned after an early stop in its second epoch
C7_Witness ==
    /\ pc = "returned"
    /\ first_call
    /\ NUM_EPOCHS = 3
    /\ Len(val_losses) = 2
    /\ n_validated = 2
    /\ saved_epochs = {1}

\* C8: the scheduler is stepped once per training batch, after that batch's
\* optimizer step: between batches both step counts equal the number of batches
\* trained, inside a batch the optimizer is one step ahead, and the steps taken
\* within one train() call never exceed total_steps (so the count of a fresh
\* Trainer stays within the scheduler's horizon throughout its first call).
C8_SchedulerSteps ==
    /\ sched_steps = Len(val_losses) * len_train_loader + (IF InEpoch THEN batch ELSE 0)
    /\ opt_steps = sched_steps + (IF pc = "sched" THEN 1 ELSE 0)
    /\ sched_steps - start_steps <= total_steps
    /\ Fresh => sched_steps <= total_steps

\* the first call ran all its epochs and used up the scheduler's horizon
C8_Witness ==
    /\ pc = "returned"
    /\ first_call
    /\ len_train_loader = 2
    /\ NUM_EPOCHS >= 2
    /\ sched_steps = total_steps
    /\ opt_steps = total_steps

\* the last of the first n epochs whose loss was strictly lower than every
\* earlier one (the first epoch has no earlier one)
RECURSIVE LastStrictlyLowest(_, _)
LastStrictlyLowest(h, n) ==
    IF n <= 1 THEN n
    ELSE IF \A j \in 1..(n - 1) : Decreases(h[n], h[j]) THEN n
         ELSE LastStrictlyLowest(h, n - 1)

\* C2 as stated, for the first train() call of a fresh Trainer (the tag of its
\* k-th epoch is k): after every epoch best_val_loss is the minimum of the
\* validation losses observed so far, and best_model.pt holds the model of the
\* last epoch whose loss was strictly lower than every earlier one, that is of
\* the earliest epoch that attained the current minimum.
C2_AsStated ==
    (first_call /\ Completed >= 1) =>
        /\ best_val_loss = RunBest(val_losses, Completed)
        /\ best_file = LastStrictlyLowest(val_losses, Completed)

\* C3 as stated, for the first train() call of a fresh Trainer with at least one
\* epoch: however the epoch loop ended, train() returns, having loaded
\* best_model.pt as written in this run by the epoch with the lowest validation
\* loss, and only then evaluated the test set and the noisy test set, once each,
\* with that model.
C3_AsStated ==
    (first_call /\ NUM_EPOCHS >= 1 /\ pc \in {"returned", "raised"}) =>
        /\ pc = "returned"
        /\ post = <<"load", "test", "noise">>
        /\ best_file \in 1..Ran
        /\ val_losses[best_file] = RunBest(val_losses, Ran)
        /\ \A j \in 1..(best_file - 1) : val_losses[j] # val_losses[best_file]
        /\ test_results = best_file
        /\ noise_test_results = best_file

\* C4 as stated, for the calls whose validation losses are all finite: when
\* train() has returned, for every epoch k (1-based) whose training and
\* validation were run, model_epoch_k.pt was saved and the training curves
\* were saved with that epoch in them.
C4_AsStated ==
    (pc = "returned" /\ \A i \in 1..Len(val_losses) : val_losses[i] <= MaxLoss) =>
        \A k \in 1..Ran : k \in saved_epochs /\ curves_saved >= start_len + k

\* C5 as stated: with USE_CLASS_WEIGHTS, for every vector of per-class label
\* counts and every CLASS_WEIGHT_METHOD, the returned weights sum to NUM_CLASSES
\* and an unrecognised method gives the weights of 'inverse'.
C5_AsStated ==
    (cw_pc = "done" /\ USE_CLASS_WEIGHTS) =>
        /\ WeightSum(class_weights) = Fin(NUM_CLASSES, 1)
        /\ CLASS_WEIGHT_METHOD = "unrecognised" =>
             class_weights = CalculateClassWeights(TRUE, "inverse", EFFECTIVE_NUM_BETA,
                                                   label_counts)

\* C5 for the count vectors in which every class occurs: there the weights do
\* sum to NUM_CLASSES (in exact arithmetic) and the default branch is 'inverse'
C5_PositiveCounts ==
    (cw_pc = "done" /\ USE_CLASS_WEIGHTS /\ \A c \in 1..NUM_CLASSES : label_counts[c] > 0) =>
        /\ WeightSum(class_weights) = Fin(NUM_CLASSES, 1)
        /\ CLASS_WEIGHT_METHOD = "unrecognised" =>
             class_weights = CalculateClassWeights(TRUE, "inverse", EFFECTIVE_NUM_BETA,
                                                   label_counts)

====
